---------------------------- MODULE Spec2Model ----------------------------
(***************************************************************************)
(* A model of netmap-rs: the ring handles of src/src/ring.rs (TxRing,      *)
(* RxRing, BatchReservation) over one TX ring and one RX ring that the     *)
(* framework connects back to back (a VALE pair or a pipe).                *)
(*                                                                         *)
(* The user-space operations are translated statement by statement from    *)
(* ring.rs.  The framework's side of a sync (nm_txsync / nm_rxsync) is not *)
(* code of the repository; it follows the netmap contract: the kernel keeps*)
(* private cursors, moves the slots the user released and rewrites tail.   *)
(***************************************************************************)
EXTENDS Integers, Sequences, FiniteSets, TLC

(***************************************************************************)
(* Bounds of the model.                                                    *)
(***************************************************************************)
\* slots the framework allocated for each ring (netmap_ring.num_slots)
NumSlots == 3
\* bytes of one packet buffer (netmap_ring.nr_buf_size)
BufSize == 2
\* no operation is started that would take a cursor beyond this value
MaxCursor == 4
\* largest count given to reserve_batch and largest out[] given to recv_batch
MaxBatch == 2
\* packets the connection holds between the two rings
MaxWire == 2
\* frames the receiver takes before it stops calling recv / recv_batch
MaxRcvd == 3
\* reserve_batch calls the sender makes
MaxReserve == 2
\* u32 arithmetic wraps at 2^32; the model wraps at this value, which stays
\* above every sum a bounded run can form
CursorModulus == 32

\* packets the async writer hands to poll_write
MaxWrites == 3
\* most rings of one direction the framework gives an endpoint
MaxRings == 2
\* live handles an endpoint's user keeps at a time
MaxHandles == 2

\* `as u16` of a length (slot.len is a u16)
U16Modulus == 65536
\* the direction bit Ring::sync tests in netmap_ring.flags
NR_TX == 1

Min(a, b) == IF a < b THEN a ELSE b

\* the payloads a caller passes: n bytes, all equal to b
Fill(b, n) == [i \in 1..n |-> b]
\* an empty one, a short one, one of exactly nr_buf_size bytes, one byte more
Payloads == {Fill(1, 0), Fill(1, 1), Fill(2, BufSize), Fill(1, BufSize + 1)}

\* a reservation entry no packet() call has written
Unwritten == <<0>>

VARIABLES
    tx,     \* the TX netmap_ring in shared memory
    rx,     \* the RX netmap_ring in shared memory
    resv,   \* the live BatchReservation, if any, and the reservations asked for
    hw,     \* the kernel's private cursors
    wire,   \* packets the kernel took from TX and has not yet put in RX
    proc,   \* "running", "panicked" (Rust panic) or "faulted" (wild access)
    build,  \* "debug": integer overflow panics; "release": it wraps
    last,   \* the last call and what it returned
    sent,   \* payloads handed to send / committed batches, in order
    rcvd,   \* frames recv / recv_batch returned, in order
    builder,  \* the NetmapBuilder, and the identifier it was made from
    nmreq,    \* what build_nmreq returned: the request structure or BindFail
    netmap,   \* the endpoint build() returned, and the descriptor behind it
    handles,  \* live ring handles per direction, ring index and accessor
    opens,    \* calls of the framework's open primitive (nm_open)
    ioerr,    \* the last io::Error made for a caller, and what it was made of
    async_fd, \* the AsyncFd: readiness flags, registered wakers, and whether
              \* the reading and the writing task are runnable or parked
    fallback, \* the queues of the fallback rings, and what went through them
    ring1     \* RX ring 1 of the endpoint: the netmap_ring, the kernel's
              \* cursors for it, the packets waiting for it, the frames read

vars == <<tx, rx, resv, hw, wire, proc, build, last, sent, rcvd,
          builder, nmreq, netmap, handles, opens, ioerr, async_fd, fallback,
          ring1>>

\* the two rings and their traffic; the builder and the endpoint
ringVars == <<tx, rx, resv, hw, wire, proc, build, sent, rcvd>>
endpointVars == <<builder, nmreq, netmap, handles, opens>>

\* what the operations on ring 0 and on the endpoint leave alone, a sync of
\* the whole descriptor excepted
sideVars == <<fallback, ring1>>

----------------------------------------------------------------------------
(***************************************************************************)
(* Data                                                                    *)
(***************************************************************************)
EmptyBuf == [i \in 1..BufSize |-> 0]
EmptySlot == [len |-> 0, flags |-> 0, buf |-> EmptyBuf]
NoResv(made) == [live |-> FALSE, start |-> 0, count |-> 0, data |-> <<>>, made |-> made]

\* a copy that leaves the buffer as it was
CopyInto_nothing(src, buf) == buf

\* ptr::copy_nonoverlapping(src, slot.buf, src.len()) for src.len() <= BufSize
CopyInto(src, buf) == [i \in 1..BufSize |-> IF i <= Len(src) THEN src[i] ELSE buf[i]]

\* slice::from_raw_parts(slot.buf, slot.len)
SlotBytes(s) == SubSeq(s.buf, 1, Min(s.len, BufSize))

Call(op, res, n, buf, frames) ==
    [op |-> op, res |-> res, n |-> n, buf |-> buf, frames |-> frames]

\* a - b on u32 overflows when a < b: a debug build panics there, a release
\* build wraps
Underflows(a, b) == a < b
WrappingSub(a, b) == (a - b + CursorModulus) % CursorModulus

\* no builder made yet; asked_tx / asked_rx remember the argument of the
\* last num_tx_rings / num_rx_rings call, Unset when there was none
Unset == 0 - 1
NoBuilder ==
    [stage |-> "none", ifname |-> <<>>, ifname_raw |-> <<>>, base_ifname |-> <<>>,
     wants_host_rings |-> FALSE, is_pipe_if |-> FALSE,
     req_num_tx_rings |-> 0, req_num_rx_rings |-> 0, additional_flags |-> 0,
     asked_tx |-> Unset, asked_rx |-> Unset]

\* build_nmreq not called yet
NoReq ==
    [res |-> "none", nr_name |-> <<>>, nr_tx_rings |-> 0, nr_rx_rings |-> 0,
     nr_host_tx_rings |-> 0, nr_host_rx_rings |-> 0, nr_flags |-> 0]

\* the ring counts of the shared interface descriptor (netmap_if)
NoNifp == [ni_tx_rings |-> 0, ni_rx_rings |-> 0,
           ni_host_tx_rings |-> 0, ni_host_rx_rings |-> 0]

\* no endpoint yet
NoNetmap ==
    [state |-> "none", num_tx_rings |-> 0, num_rx_rings |-> 0,
     is_host_if |-> FALSE, tokio |-> FALSE, adapter |-> FALSE, closes |-> 0,
     nifp |-> NoNifp]

\* a ring of an endpoint: direction and index
HandleKeys == {"tx", "rx"} \X (0..(MaxRings - 1))

\* no io::Error made yet
NoIoError == [kind |-> "none", from |-> "none", wrapped |-> "none"]

\* AsyncFd::new: no readiness seen, no waker registered, both tasks runnable
NewAsyncFd ==
    [read_ready |-> FALSE, read_waker |-> FALSE,
     write_ready |-> FALSE, write_waker |-> FALSE,
     reader |-> "runnable", writer |-> "runnable"]

\* no fallback ring made yet
NoFallback ==
    [tx |-> "none", tx_queue |-> <<>>, tx_max_size |-> 0,
     rx |-> "none", rx_queue |-> <<>>, rx_max_size |-> 0,
     sent |-> <<>>, received |-> <<>>]

\* RX ring 1 as the open leaves it: empty, nothing waiting for it
NewRing1 ==
    [rx |-> [head |-> 0, cur |-> 0, tail |-> 0, num_slots |-> NumSlots,
             nr_buf_size |-> BufSize, flags |-> 0,
             slot |-> [i \in 0..(NumSlots - 1) |-> EmptySlot]],
     hw |-> [rxhead |-> 0, rxtail |-> 0],
     wire |-> <<>>,
     rcvd |-> <<>>]

Init ==
    /\ fallback = NoFallback
    /\ ring1 = NewRing1
    /\ ioerr = NoIoError
    /\ async_fd = NewAsyncFd
    /\ builder = NoBuilder
    /\ nmreq = NoReq
    /\ netmap = NoNetmap
    /\ handles = [k \in HandleKeys |-> 0]
    /\ opens = 0
    /\ tx = [head |-> 0, cur |-> 0, tail |-> NumSlots - 1, num_slots |-> NumSlots,
             nr_buf_size |-> BufSize, flags |-> NR_TX,
             slot |-> [i \in 0..(NumSlots - 1) |-> EmptySlot]]
    /\ rx = [head |-> 0, cur |-> 0, tail |-> 0, num_slots |-> NumSlots,
             nr_buf_size |-> BufSize, flags |-> 0,
             slot |-> [i \in 0..(NumSlots - 1) |-> EmptySlot]]
    /\ resv = NoResv(0)
    /\ hw = [txcur |-> 0, rxhead |-> 0, rxtail |-> 0]
    /\ wire = <<>>
    /\ proc = "running"
    /\ build \in {"debug", "release"}
    /\ last = Call("open", "Ok", 0, <<>>, <<>>)
    /\ sent = <<>>
    /\ rcvd = <<>>

\* every call records itself
Record(c) == last' = c

----------------------------------------------------------------------------
(***************************************************************************)
(* TxRing                                                                  *)
(***************************************************************************)
max_payload_size == tx.nr_buf_size

\* TxRing::send.  No test of ring space; the slot is indexed by cur as it is,
\* the cursors advance by wrapping_add(1) with no reduction modulo num_slots,
\* and slot.flags is not written.
TxRing_send(buf) ==
    /\ proc = "running"
    /\ UNCHANGED <<endpointVars, sideVars, ioerr, async_fd>>
    /\ tx.cur + 1 <= MaxCursor
    /\ IF Len(buf) > max_payload_size
       THEN /\ Record(Call("send", "PacketTooLarge", Len(buf), buf, <<>>))
            /\ UNCHANGED <<tx, rx, resv, hw, wire, proc, build, sent, rcvd>>
       ELSE LET cur == tx.cur
                head == (tx.cur + 1) % CursorModulus
            IN IF cur < NumSlots
               THEN /\ tx' = [tx EXCEPT !.slot[cur].buf = CopyInto(buf, @),
                                        !.slot[cur].len = Len(buf) % U16Modulus,
                                        !.head = head,
                                        !.cur = head]
                    /\ Record(Call("send", "Ok", Len(buf), buf, <<>>))
                    /\ sent' = Append(sent, buf)
                    /\ UNCHANGED <<rx, resv, hw, wire, proc, build, rcvd>>
               ELSE \* slot.add(cur) is past the slot array: the copy goes
                    \* through whatever that memory holds
                    \/ /\ proc' = "faulted"
                       /\ Record(Call("send", "Fault", Len(buf), buf, <<>>))
                       /\ UNCHANGED <<tx, rx, resv, hw, wire, build, sent, rcvd>>
                    \/ /\ tx' = [tx EXCEPT !.head = head, !.cur = head]
                       /\ Record(Call("send", "Ok", Len(buf), buf, <<>>))
                       /\ sent' = Append(sent, buf)
                       /\ UNCHANGED <<rx, resv, hw, wire, proc, build, rcvd>>

\* TxRing::reserve_batch.  The statement
\*     let avail = (*ring).num_slots = ((*ring).head - (*ring).tail) as usize;
\* stores head - tail in num_slots and takes that value as avail; the
\* reservation starts at head.  At most one reservation is held at a time.
TxRing_reserve_batch(count) ==
    /\ proc = "running"
    /\ UNCHANGED <<endpointVars, sideVars, ioerr, async_fd>>
    /\ ~resv.live
    /\ resv.made < MaxReserve
    /\ IF Underflows(tx.head, tx.tail) /\ build = "debug"
       THEN /\ proc' = "panicked"
            /\ Record(Call("reserve_batch", "Panic", count, <<>>, <<>>))
            /\ UNCHANGED <<tx, rx, resv, hw, wire, build, sent, rcvd>>
       ELSE LET avail == WrappingSub(tx.head, tx.tail)
            IN /\ tx' = [tx EXCEPT !.num_slots = avail]
               /\ IF avail < count
                  THEN /\ Record(Call("reserve_batch", "InsufficientSpace", count, <<>>, <<>>))
                       /\ resv' = NoResv(resv.made + 1)
                  ELSE /\ Record(Call("reserve_batch", "Ok", count, <<>>, <<>>))
                       /\ resv' = [live |-> TRUE, start |-> tx.head, count |-> count,
                                   data |-> [i \in 1..count |-> Unwritten],
                                   made |-> resv.made + 1]
               /\ UNCHANGED <<rx, hw, wire, proc, build, sent, rcvd>>

\* what the caller writes as packet index of a batch: len bytes that tell
\* the packets of the batch apart
PacketData(index, len) == Fill(index + 1, len)
\* the lengths a caller asks packet() for: a packet that fits, one byte too many
PacketLens == {1, BufSize + 1}

\* BatchReservation::packet(index, len) followed by the caller's
\* copy_from_slice(p) into the slice it returns, with len = p.len().  Only
\* index is checked; len is not compared with nr_buf_size.  The caller
\* writes each packet of a batch once.
BatchReservation_packet(index, p) ==
    /\ proc = "running"
    /\ UNCHANGED <<endpointVars, sideVars, ioerr, async_fd>>
    /\ resv.live
    /\ index < resv.count => resv.data[index + 1] = Unwritten
    /\ IF index >= resv.count
       THEN /\ Record(Call("packet", "InvalidRingIndex", index, p, <<>>))
            /\ UNCHANGED <<tx, rx, resv, hw, wire, proc, build, sent, rcvd>>
       ELSE IF tx.num_slots = 0
       THEN \* remainder with a divisor of zero
            /\ proc' = "panicked"
            /\ Record(Call("packet", "Panic", index, p, <<>>))
            /\ UNCHANGED <<tx, rx, resv, hw, wire, build, sent, rcvd>>
       ELSE LET slot_idx == (resv.start + index) % tx.num_slots
            IN \/ \* the slot exists and the slice lies inside its buffer, or
                  \* the bytes past the buffer's end land in memory the model
                  \* does not hold
                  /\ slot_idx < NumSlots
                  /\ tx' = [tx EXCEPT !.slot[slot_idx].len = Len(p) % U16Modulus,
                                      !.slot[slot_idx].buf = CopyInto(p, @)]
                  /\ resv' = [resv EXCEPT !.data[index + 1] = p]
                  /\ Record(Call("packet", "Ok", index, p, <<>>))
                  /\ UNCHANGED <<rx, hw, wire, proc, build, sent, rcvd>>
               \/ \* slot.add(slot_idx) is past the slot array: the write goes
                  \* through whatever that memory holds and misses the ring
                  /\ slot_idx >= NumSlots
                  /\ resv' = [resv EXCEPT !.data[index + 1] = p]
                  /\ Record(Call("packet", "Ok", index, p, <<>>))
                  /\ UNCHANGED <<tx, rx, hw, wire, proc, build, sent, rcvd>>
               \/ \* a wild slot or a slice longer than the buffer: the access
                  \* hits unmapped memory
                  /\ slot_idx >= NumSlots \/ Len(p) > tx.nr_buf_size
                  /\ proc' = "faulted"
                  /\ Record(Call("packet", "Fault", index, p, <<>>))
                  /\ UNCHANGED <<tx, rx, resv, hw, wire, build, sent, rcvd>>

\* BatchReservation::commit: head = start + count, cur = head, no reduction
\* modulo num_slots.
BatchReservation_commit ==
    /\ proc = "running"
    /\ UNCHANGED <<endpointVars, sideVars, ioerr, async_fd>>
    /\ resv.live
    /\ resv.start + resv.count <= MaxCursor
    /\ LET head == (resv.start + resv.count) % CursorModulus
       IN tx' = [tx EXCEPT !.head = head, !.cur = head]
    /\ resv' = NoResv(resv.made)
    /\ sent' = sent \o resv.data
    /\ Record(Call("commit", "Ok", resv.count, <<>>, <<>>))
    /\ UNCHANGED <<rx, hw, wire, proc, build, rcvd>>

\* A BatchReservation going out of scope: the type has no Drop.
BatchReservation_drop ==
    /\ proc = "running"
    /\ UNCHANGED <<endpointVars, sideVars, ioerr, async_fd>>
    /\ resv.live
    /\ resv' = NoResv(resv.made)
    /\ Record(Call("drop", "Ok", resv.count, <<>>, <<>>))
    /\ UNCHANGED <<tx, rx, hw, wire, proc, build, sent, rcvd>>

----------------------------------------------------------------------------
(***************************************************************************)
(* RxRing                                                                  *)
(***************************************************************************)
\* RxRing::recv.  Emptiness is head == tail; the slot read is tail %
\* num_slots; head and tail (not cur) move to tail.wrapping_add(1).
RxRing_recv ==
    /\ proc = "running"
    /\ UNCHANGED <<endpointVars, sideVars, ioerr, async_fd>>
    /\ rx.tail + 1 <= MaxCursor
    /\ Len(rcvd) + 1 <= MaxRcvd
    /\ IF rx.head = rx.tail
       THEN /\ Record(Call("recv", "None", 0, <<>>, <<>>))
            /\ UNCHANGED <<tx, rx, resv, hw, wire, proc, build, sent, rcvd>>
       ELSE LET slot_idx == rx.tail % rx.num_slots
                buf == SlotBytes(rx.slot[slot_idx])
                head == (rx.tail + 1) % CursorModulus
            IN /\ rx' = [rx EXCEPT !.head = head, !.tail = head]
               /\ Record(Call("recv", "Some", slot_idx, buf, <<>>))
               /\ rcvd' = Append(rcvd, buf)
               /\ UNCHANGED <<tx, resv, hw, wire, proc, build, sent>>

\* RxRing::recv as a function of the ring: the ring it leaves and the frame
\* it returns, if any
RecvOnce(r) ==
    IF r.head = r.tail
    THEN [ring |-> r, frames |-> <<>>]
    ELSE LET head == (r.tail + 1) % CursorModulus
         IN [ring |-> [r EXCEPT !.head = head, !.tail = head],
             frames |-> <<SlotBytes(r.slot[r.tail % r.num_slots])>>]

\* k calls of recv one after the other
RECURSIVE RecvRepeated(_, _)
RecvRepeated(r, k) ==
    IF k = 0
    THEN [ring |-> r, frames |-> <<>>]
    ELSE LET first == RecvOnce(r)
             rest == RecvRepeated(first.ring, k - 1)
         IN [ring |-> rest.ring, frames |-> first.frames \o rest.frames]

\* RxRing::recv_batch(batch) with batch.len() = n.  avail = head - tail on
\* u32; the slots read are (tail + i) % num_slots; head and tail move to
\* tail + count.
RxRing_recv_batch(n) ==
    /\ proc = "running"
    /\ UNCHANGED <<endpointVars, sideVars, ioerr, async_fd>>
    /\ rx.tail + n <= MaxCursor
    /\ Len(rcvd) + n <= MaxRcvd
    /\ IF Underflows(rx.head, rx.tail) /\ build = "debug"
       THEN /\ proc' = "panicked"
            /\ Record(Call("recv_batch", "Panic", 0, <<>>, <<>>))
            /\ UNCHANGED <<tx, rx, resv, hw, wire, build, sent, rcvd>>
       ELSE LET avail == WrappingSub(rx.head, rx.tail)
                count == Min(avail, n)
                batch == [i \in 1..count |->
                            SlotBytes(rx.slot[(rx.tail + (i - 1)) % rx.num_slots])]
                head == (rx.tail + count) % CursorModulus
            IN /\ rx' = [rx EXCEPT !.head = head, !.tail = head]
               /\ Record(Call("recv_batch", "Ok", count, <<>>, batch))
               /\ rcvd' = rcvd \o batch
               /\ UNCHANGED <<tx, resv, hw, wire, proc, build, sent>>

----------------------------------------------------------------------------
(***************************************************************************)
(* Ring::sync and the framework's side of it                               *)
(***************************************************************************)
\* slots from a up to, not including, b, going round a ring of NumSlots
Dist(a, b) == (b - a + NumSlots) % NumSlots

\* nm_txsync: the kernel takes the slots [txcur, head) in order, as many as
\* the connection has room for, and hands back every slot it has taken.  A
\* ring whose head or cur is no slot index is refused and left as it is.
nm_txsync ==
    IF tx.head >= NumSlots \/ tx.cur >= NumSlots
    THEN UNCHANGED <<tx, hw, wire>>
    ELSE LET k == Min(Dist(hw.txcur, tx.head), MaxWire - Len(wire))
             taken == [i \in 1..k |->
                         SlotBytes(tx.slot[(hw.txcur + (i - 1)) % NumSlots])]
             txcur == (hw.txcur + k) % NumSlots
         IN /\ wire' = wire \o taken
            /\ hw' = [hw EXCEPT !.txcur = txcur]
            /\ tx' = [tx EXCEPT !.tail = (txcur + NumSlots - 1) % NumSlots]

\* the slot the kernel fills with the i-th packet it delivers
Delivered(s, i, k) ==
    LET j == Dist(hw.rxtail, s) + 1
    IN IF j <= k
       THEN [len |-> Len(wire[j]), flags |-> 0, buf |-> CopyInto(wire[j], rx.slot[s].buf)]
       ELSE rx.slot[s]

\* nm_rxsync: the kernel takes back the slots before head, fills the free
\* slots from rxtail on with the packets of the connection, in order, one
\* slot being kept empty, and publishes the new tail.  A ring whose head or
\* cur is no slot index, or whose head is not between the last released
\* slot and the kernel's tail, is refused and left as it is.
RxSynced ==
    IF \/ rx.head >= NumSlots
       \/ rx.cur >= NumSlots
       \/ Dist(hw.rxhead, rx.head) > Dist(hw.rxhead, hw.rxtail)
    THEN [rx |-> rx, hw |-> hw, wire |-> wire]
    ELSE LET room == NumSlots - 1 - Dist(rx.head, hw.rxtail)
             k == Min(room, Len(wire))
             rxtail == (hw.rxtail + k) % NumSlots
         IN [rx |-> [rx EXCEPT !.tail = rxtail,
                               !.slot = [s \in 0..(NumSlots - 1) |-> Delivered(s, 1, k)]],
             hw |-> [hw EXCEPT !.rxhead = rx.head, !.rxtail = rxtail],
             wire |-> SubSeq(wire, k + 1, Len(wire))]

\* the RX sync as a step of the kernel
nm_rxsync ==
    /\ rx' = RxSynced.rx
    /\ hw' = RxSynced.hw
    /\ wire' = RxSynced.wire

\* what the sync ioctl returns when the kernel cannot do it
IoctlFailed == 0 - 1

\* nm_rxsync on a ring given with the kernel's cursors h for it and the
\* packets w waiting for it: the same step as RxSynced
RingSynced(r, h, w) ==
    IF \/ r.head >= NumSlots
       \/ r.cur >= NumSlots
       \/ Dist(h.rxhead, r.head) > Dist(h.rxhead, h.rxtail)
    THEN [rx |-> r, hw |-> h, wire |-> w]
    ELSE LET room == NumSlots - 1 - Dist(r.head, h.rxtail)
             k == Min(room, Len(w))
             rxtail == (h.rxtail + k) % NumSlots
             filled(s) ==
                 LET j == Dist(h.rxtail, s) + 1
                 IN IF j <= k
                    THEN [len |-> Len(w[j]), flags |-> 0,
                          buf |-> CopyInto(w[j], r.slot[s].buf)]
                    ELSE r.slot[s]
         IN [rx |-> [r EXCEPT !.tail = rxtail,
                              !.slot = [s \in 0..(NumSlots - 1) |-> filled(s)]],
             hw |-> [h EXCEPT !.rxhead = r.head, !.rxtail = rxtail],
             wire |-> SubSeq(w, k + 1, Len(w))]

\* ioctl(fd, NIOCRXSYNC) is a sync of every RX ring of the descriptor: what
\* it makes of ring 1
NIOCRXSYNC_ring1 ==
    LET synced == RingSynced(ring1.rx, ring1.hw, ring1.wire)
    IN [ring1 EXCEPT !.rx = synced.rx, !.hw = synced.hw, !.wire = synced.wire]

\* a sync on the TX handle that syncs the RX ring as well
TxRing_sync_both_directions ==
    /\ proc = "running"
    /\ UNCHANGED <<endpointVars, sideVars, ioerr, async_fd>>
    /\ nm_txsync
    /\ rx' = [rx EXCEPT !.tail = hw.rxtail]
    /\ Record(Call("tx_sync", "Ok", 0, <<>>, <<>>))
    /\ UNCHANGED <<resv, proc, build, sent, rcvd>>

\* Ring::sync on the TX handle: the direction is read from the ring's flags.
\* The call returns (): what nm_txsync returned (kept here as the n of the
\* call, IoctlFailed when the kernel could not sync) is dropped.
TxRing_sync ==
    /\ proc = "running"
    /\ UNCHANGED <<endpointVars, sideVars, ioerr, async_fd>>
    /\ \/ /\ IF (tx.flags % 2) = NR_TX
             THEN nm_txsync /\ UNCHANGED rx
             ELSE UNCHANGED <<tx, rx, hw, wire>>
          /\ Record(Call("tx_sync", "Ok", 0, <<>>, <<>>))
       \/ /\ UNCHANGED <<tx, rx, hw, wire>>
          /\ Record(Call("tx_sync", "Ok", IoctlFailed, <<>>, <<>>))
    /\ UNCHANGED <<resv, proc, build, sent, rcvd>>

\* Ring::sync on the RX handle
RxRing_sync ==
    /\ proc = "running"
    /\ UNCHANGED <<endpointVars, sideVars, ioerr, async_fd>>
    /\ \/ /\ IF (rx.flags % 2) = NR_TX
             THEN UNCHANGED <<tx, rx, hw, wire>>
             ELSE nm_rxsync /\ UNCHANGED tx
          /\ Record(Call("rx_sync", "Ok", 0, <<>>, <<>>))
       \/ /\ UNCHANGED <<tx, rx, hw, wire>>
          /\ Record(Call("rx_sync", "Ok", IoctlFailed, <<>>, <<>>))
    /\ UNCHANGED <<resv, proc, build, sent, rcvd>>

----------------------------------------------------------------------------
\* what the owner of the RX handle can do
RxNext ==
    \/ RxRing_recv
    \/ \E n \in 0..MaxBatch : RxRing_recv_batch(n)
    \/ RxRing_sync

\* the counts a caller asks reserve_batch for: small ones, and the whole ring
ReserveCounts == (0..MaxBatch) \cup {NumSlots}

\* single packets from one handle to the other
SendNext ==
    \/ \E buf \in Payloads : TxRing_send(buf)
    \/ TxRing_sync
    \/ RxNext

\* batches from one handle to the other
BatchNext ==
    \/ \E count \in ReserveCounts : TxRing_reserve_batch(count)
    \/ \E index \in 0..MaxBatch, len \in PacketLens :
            BatchReservation_packet(index, PacketData(index, len))
    \/ BatchReservation_commit
    \/ BatchReservation_drop
    \/ TxRing_sync
    \/ RxNext

\* one sender using send, one receiver
SpecSend == Init /\ [][SendNext]_vars

\* one sender using batch reservations, one receiver
SpecBatch == Init /\ [][BatchNext]_vars

\* the operations of the two ring handles that move packets, with one
\* payload of one byte for send and reservations of one slot
RingNext ==
    \/ TxRing_send(Fill(1, 1))
    \/ TxRing_reserve_batch(1)
    \/ BatchReservation_packet(0, PacketData(0, 1))
    \/ BatchReservation_commit
    \/ TxRing_sync
    \/ RxRing_recv
    \/ RxRing_recv_batch(1)
    \/ RxRing_sync

SpecRing == Init /\ [][RingNext]_vars

----------------------------------------------------------------------------
(***************************************************************************)
(* NetmapBuilder: from an interface identifier to the request structure    *)
(***************************************************************************)
\* A string is the sequence of its bytes, one character each; "NUL" stands
\* for the zero byte.
\* size of nmreq.nr_name
IFNAMSIZ == 16
\* the registration bits build_nmreq sets in nr_flags
NR_REG_NIC_ONLY == 1
NR_REG_SW_ONLY == 2
\* a flag a caller passes to flags(): NETMAP_NO_TX_POLL
NETMAP_NO_TX_POLL == 4

Prefix == <<"n", "e", "t", "m", "a", "p", ":">>
PipeOpen == <<"p", "i", "p", "e", "{">>
Eth0 == <<"e", "t", "h", "0">>
Vale == <<"v", "a", "l", "e", "0", ":", "1">>
PipeA == <<"p", "i", "p", "e", "{", "a", "}">>
IntegrationPipe == PipeOpen \o <<"i", "n", "t", "e", "g", "r", "a", "t", "i", "o", "n", "_", "t", "e", "s", "t", "_", "p", "i", "p", "e", "}">>
TokioPipe == PipeOpen \o <<"t", "o", "k", "i", "o", "_", "i", "n", "t", "e", "g", "r", "a", "t", "i", "o", "n", "_", "t", "e", "s", "t", "}">>
\* a name that just fits nr_name with its terminator, and one byte more
LongestName == [i \in 1..(IFNAMSIZ - 1) |-> "x"]
TooLongName == [i \in 1..IFNAMSIZ |-> "x"]
\* a name with a zero byte inside
NulName == <<"e", "NUL", "0">>

\* str::starts_with, str::ends_with(char), str::contains(char),
\* str::strip_prefix (of a string that has the prefix), String::pop
starts_with(s, p) == Len(p) <= Len(s) /\ SubSeq(s, 1, Len(p)) = p
ends_with(s, c) == Len(s) > 0 /\ s[Len(s)] = c
contains(s, c) == \E i \in 1..Len(s) : s[i] = c
strip_prefix(s, p) == SubSeq(s, Len(p) + 1, Len(s))
pop(s) == SubSeq(s, 1, Len(s) - 1)

\* a | b on unsigned integers
RECURSIVE BitOr(_, _)
BitOr(a, b) ==
    IF a = 0 THEN b
    ELSE IF b = 0 THEN a
    ELSE (IF a % 2 = 1 \/ b % 2 = 1 THEN 1 ELSE 0) + 2 * BitOr(a \div 2, b \div 2)

\* the identifiers a caller opens
Identifiers ==
    {Eth0, Prefix \o Eth0, Eth0 \o <<"^">>, Prefix \o Eth0 \o <<"^">>,
     Vale, PipeA, Prefix \o PipeA, PipeA \o <<"^">>,
     Prefix \o IntegrationPipe, Prefix \o TokioPipe,
     LongestName, TooLongName, NulName}
\* the ring counts a caller asks for; the last one does not fit a u16
CountInputs == {0, 2, U16Modulus + 1}
\* the extra flags a caller passes
FlagInputs == {0, NETMAP_NO_TX_POLL, NETMAP_NO_TX_POLL + NR_REG_SW_ONLY}

\* new() that takes the identifier as the base name, prefix and all
NetmapBuilder_new_keeps_prefix(ifname_str) ==
    LET wants_host_rings == ends_with(ifname_str, "^")
        is_pipe == starts_with(ifname_str, PipeOpen) /\ ends_with(ifname_str, "}")
    IN [stage |-> "building", ifname |-> ifname_str,
        ifname_raw |-> ifname_str,
        base_ifname |-> IF wants_host_rings THEN pop(ifname_str) ELSE ifname_str,
        wants_host_rings |-> wants_host_rings,
        is_pipe_if |-> is_pipe,
        req_num_tx_rings |-> IF is_pipe THEN 1 ELSE 0,
        req_num_rx_rings |-> IF is_pipe THEN 1 ELSE 0,
        additional_flags |-> 0,
        asked_tx |-> Unset, asked_rx |-> Unset]

\* NetmapBuilder::new
NetmapBuilder_new(ifname_str) ==
    LET stripped == starts_with(ifname_str, Prefix)
        base_name_for_req ==
            IF stripped THEN strip_prefix(ifname_str, Prefix) ELSE ifname_str
        raw_name_to_use ==
            IF ~stripped /\ ~contains(ifname_str, ":") /\ ~starts_with(ifname_str, PipeOpen)
            THEN Prefix \o ifname_str
            ELSE ifname_str
        wants_host_rings == ends_with(base_name_for_req, "^")
        effective_base_name_for_req ==
            IF wants_host_rings THEN pop(base_name_for_req) ELSE base_name_for_req
        is_pipe == starts_with(base_name_for_req, PipeOpen) /\ ends_with(base_name_for_req, "}")
        default_rings == IF is_pipe THEN 1 ELSE 0
    IN [stage |-> "building", ifname |-> ifname_str,
        ifname_raw |-> raw_name_to_use,
        base_ifname |-> effective_base_name_for_req,
        wants_host_rings |-> wants_host_rings,
        is_pipe_if |-> is_pipe,
        req_num_tx_rings |-> default_rings,
        req_num_rx_rings |-> default_rings,
        additional_flags |-> 0,
        asked_tx |-> Unset, asked_rx |-> Unset]

\* build_nmreq whose length test lets a name of IFNAMSIZ bytes through
build_nmreq_length_off_by_one(b) ==
    IF Len(b.base_ifname) > IFNAMSIZ
    THEN [NoReq EXCEPT !.res = "BindFail"]
    ELSE [NoReq EXCEPT !.res = "Ok",
                       !.nr_name = [i \in 1..IFNAMSIZ |->
                                      IF i <= Len(b.base_ifname) THEN b.base_ifname[i]
                                                                 ELSE "NUL"],
                       !.nr_tx_rings = b.req_num_tx_rings,
                       !.nr_rx_rings = b.req_num_rx_rings]

\* build_nmreq that asks for NIC rings whatever the identifier says
build_nmreq_nic_always(b) ==
    IF Len(b.base_ifname) >= IFNAMSIZ
    THEN [NoReq EXCEPT !.res = "BindFail"]
    ELSE [NoReq EXCEPT !.res = "Ok",
                       !.nr_tx_rings = b.req_num_tx_rings,
                       !.nr_rx_rings = b.req_num_rx_rings,
                       !.nr_flags = BitOr(b.additional_flags, NR_REG_NIC_ONLY)]

\* NetmapBuilder::build_nmreq
build_nmreq(b) ==
    IF Len(b.base_ifname) >= IFNAMSIZ
    THEN [NoReq EXCEPT !.res = "BindFail"]
    ELSE LET nr_name_bytes ==
                 [i \in 1..IFNAMSIZ |->
                     IF i <= Len(b.base_ifname) THEN b.base_ifname[i] ELSE "NUL"]
             pipe == b.is_pipe_if
             host == ~b.is_pipe_if /\ b.wants_host_rings
         IN [res |-> "Ok",
             nr_name |-> nr_name_bytes,
             nr_tx_rings |-> IF host THEN 0 ELSE b.req_num_tx_rings,
             nr_rx_rings |-> IF host THEN 0 ELSE b.req_num_rx_rings,
             nr_host_tx_rings |-> IF host THEN b.req_num_tx_rings ELSE 0,
             nr_host_rx_rings |-> IF host THEN b.req_num_rx_rings ELSE 0,
             nr_flags |-> IF pipe THEN b.additional_flags
                          ELSE IF host THEN BitOr(b.additional_flags, NR_REG_SW_ONLY)
                          ELSE BitOr(b.additional_flags, NR_REG_NIC_ONLY)]

\* the call NetmapBuilder::new(ifname_str)
Builder_new(ifname_str) ==
    /\ builder.stage = "none"
    /\ builder' = NetmapBuilder_new(ifname_str)
    /\ Record(Call("new", "Ok", 0, <<>>, <<>>))
    /\ UNCHANGED <<nmreq, netmap, handles, opens>>
    /\ UNCHANGED <<ringVars, ioerr, async_fd, sideVars>>

\* NetmapBuilder::num_tx_rings
NetmapBuilder_num_tx_rings(num) ==
    /\ builder.stage = "building"
    /\ builder' = [builder EXCEPT !.req_num_tx_rings = num % U16Modulus,
                                  !.asked_tx = num]
    /\ Record(Call("num_tx_rings", "Ok", num, <<>>, <<>>))
    /\ UNCHANGED <<nmreq, netmap, handles, opens>>
    /\ UNCHANGED <<ringVars, ioerr, async_fd, sideVars>>

\* NetmapBuilder::num_rx_rings
NetmapBuilder_num_rx_rings(num) ==
    /\ builder.stage = "building"
    /\ builder' = [builder EXCEPT !.req_num_rx_rings = num % U16Modulus,
                                  !.asked_rx = num]
    /\ Record(Call("num_rx_rings", "Ok", num, <<>>, <<>>))
    /\ UNCHANGED <<nmreq, netmap, handles, opens>>
    /\ UNCHANGED <<ringVars, ioerr, async_fd, sideVars>>

\* NetmapBuilder::flags
NetmapBuilder_flags(flags) ==
    /\ builder.stage = "building"
    /\ builder' = [builder EXCEPT !.additional_flags = flags]
    /\ Record(Call("flags", "Ok", flags, <<>>, <<>>))
    /\ UNCHANGED <<nmreq, netmap, handles, opens>>
    /\ UNCHANGED <<ringVars, ioerr, async_fd, sideVars>>

\* what nm_open can leave in the descriptor's netmap_if
Nifps ==
    [ni_tx_rings : 1..MaxRings, ni_rx_rings : 1..MaxRings,
     ni_host_tx_rings : 1..MaxRings, ni_host_rx_rings : 1..MaxRings]

\* an endpoint that always reports the hardware ring counts
Opened_hardware_counts(b, nifp) ==
    [state |-> "open",
     num_tx_rings |-> nifp.ni_tx_rings,
     num_rx_rings |-> nifp.ni_rx_rings,
     is_host_if |-> ~b.is_pipe_if /\ b.wants_host_rings,
     tokio |-> FALSE,
     nifp |-> nifp]

\* the endpoint build() makes of an opened descriptor
Opened(b, nifp) ==
    LET host == ~b.is_pipe_if /\ b.wants_host_rings
    IN [state |-> "open",
        num_tx_rings |-> IF host THEN nifp.ni_host_tx_rings ELSE nifp.ni_tx_rings,
        num_rx_rings |-> IF host THEN nifp.ni_host_rx_rings ELSE nifp.ni_rx_rings,
        is_host_if |-> host,
        tokio |-> FALSE,
        adapter |-> FALSE,
        closes |-> 0,
        nifp |-> nifp]

\* NetmapBuilder::build.  build_nmreq first; then CString::new, which refuses
\* a name with a zero byte; then nm_open, which the framework may fail.
NetmapBuilder_build ==
    /\ builder.stage = "building"
    /\ builder' = [builder EXCEPT !.stage = "built"]
    /\ nmreq' = build_nmreq(builder)
    /\ IF nmreq'.res = "BindFail" \/ contains(builder.ifname_raw, "NUL")
       THEN /\ Record(Call("build", "BindFail", 0, <<>>, <<>>))
            /\ UNCHANGED <<netmap, opens>>
       ELSE /\ opens' = opens + 1
            /\ \/ /\ Record(Call("build", "BindFail", 0, <<>>, <<>>))
                  /\ UNCHANGED netmap
               \/ \E nifp \in Nifps :
                     /\ netmap' = Opened(builder, nifp)
                     /\ Record(Call("build", "Ok", 0, <<>>, <<>>))
    /\ UNCHANGED handles
    /\ UNCHANGED <<ringVars, ioerr, async_fd, sideVars>>

\* a caller configuring and opening an endpoint
BuilderNext ==
    \/ \E ifname_str \in Identifiers : Builder_new(ifname_str)
    \/ \E num \in CountInputs : NetmapBuilder_num_tx_rings(num)
    \/ \E num \in CountInputs : NetmapBuilder_num_rx_rings(num)
    \/ \E flags \in FlagInputs : NetmapBuilder_flags(flags)
    \/ NetmapBuilder_build

SpecBuilder == Init /\ [][BuilderNext]_vars

----------------------------------------------------------------------------
(***************************************************************************)
(* Netmap and TokioNetmap: the ring accessors of an opened endpoint        *)
(***************************************************************************)
RECURSIVE SumOver(_, _)
SumOver(f, S) ==
    IF S = {} THEN 0
    ELSE LET k == CHOOSE x \in S : TRUE IN f[k] + SumOver(f, S \ {k})

\* handles alive on the endpoint
LiveHandles == SumOver(handles, HandleKeys)

\* the bounds check of an accessor that lets index = count through
RingHandle_off_by_one(op, dir, count, index) ==
    IF index > count
    THEN /\ Record(Call(op, "InvalidRingIndex", index, <<>>, <<>>))
         /\ UNCHANGED handles
    ELSE /\ LiveHandles < MaxHandles
         /\ handles' = [handles EXCEPT ![<<dir, Min(index, MaxRings - 1)>>] = @ + 1]
         /\ Record(Call(op, "Ok", index, <<>>, <<>>))

\* the accessor's bounds check and what it returns: InvalidRingIndex(index),
\* or a new handle on ring index made from the descriptor's ring pointer.
\* Nothing remembers the handles already given out.
RingHandle(op, dir, count, index) ==
    IF index >= count
    THEN /\ Record(Call(op, "InvalidRingIndex", index, <<>>, <<>>))
         /\ UNCHANGED handles
    ELSE /\ LiveHandles < MaxHandles
         /\ handles' = [handles EXCEPT ![<<dir, index>>] = @ + 1]
         /\ Record(Call(op, "Ok", index, <<>>, <<>>))

\* Netmap::tx_ring
Netmap_tx_ring(index) ==
    /\ netmap.state = "open" /\ ~netmap.tokio
    /\ RingHandle("tx_ring", "tx", netmap.num_tx_rings, index)
    /\ UNCHANGED <<builder, nmreq, netmap, opens>>
    /\ UNCHANGED <<ringVars, ioerr, async_fd, sideVars>>

\* Netmap::rx_ring
Netmap_rx_ring(index) ==
    /\ netmap.state = "open" /\ ~netmap.tokio
    /\ RingHandle("rx_ring", "rx", netmap.num_rx_rings, index)
    /\ UNCHANGED <<builder, nmreq, netmap, opens>>
    /\ UNCHANGED <<ringVars, ioerr, async_fd, sideVars>>

\* nm_close, called by Drop for Netmap and by nothing else
nm_close(n) == [n EXCEPT !.state = "closed", !.closes = @ + 1]

\* TokioNetmap::new takes the endpoint over (no borrowed handle can be
\* alive) and puts it in an Arc<AsyncFd<Netmap>> that the TokioNetmap
\* holds; AsyncFd::new may refuse the descriptor, and the endpoint is then
\* dropped.
TokioNetmap_new ==
    /\ netmap.state = "open" /\ ~netmap.tokio
    /\ LiveHandles = 0
    /\ \/ /\ netmap' = [netmap EXCEPT !.tokio = TRUE, !.adapter = TRUE]
          /\ Record(Call("tokio_new", "Ok", 0, <<>>, <<>>))
       \/ /\ netmap' = nm_close(netmap)
          /\ Record(Call("tokio_new", "Io", 0, <<>>, <<>>))
    /\ UNCHANGED <<builder, nmreq, handles, opens>>
    /\ UNCHANGED <<ringVars, ioerr, async_fd, sideVars>>

\* TokioNetmap::tx_ring
TokioNetmap_tx_ring(ring_idx) ==
    /\ netmap.state = "open" /\ netmap.tokio /\ netmap.adapter
    /\ RingHandle("async_tx_ring", "tx", netmap.num_tx_rings, ring_idx)
    /\ UNCHANGED <<builder, nmreq, netmap, opens>>
    /\ UNCHANGED <<ringVars, ioerr, async_fd, sideVars>>

\* TokioNetmap::rx_ring
TokioNetmap_rx_ring(ring_idx) ==
    /\ netmap.state = "open" /\ netmap.tokio /\ netmap.adapter
    /\ RingHandle("async_rx_ring", "rx", netmap.num_rx_rings, ring_idx)
    /\ UNCHANGED <<builder, nmreq, netmap, opens>>
    /\ UNCHANGED <<ringVars, ioerr, async_fd, sideVars>>

\* the holders of the Arc<AsyncFd<Netmap>>: the TokioNetmap and one clone in
\* every async ring handle
strong_count(n, h) == (IF n.adapter THEN 1 ELSE 0) + SumOver(h, HandleKeys)

\* what is left of the endpoint when a holder of the Arc has let go: the
\* last one drops the AsyncFd and with it the Netmap
Arc_drop(n, h) == IF strong_count(n, h) = 0 THEN nm_close(n) ELSE n

\* a TokioNetmap whose drop closes the descriptor whoever else holds it
TokioNetmap_drop_closes(n, h) == nm_close([n EXCEPT !.adapter = FALSE])

\* what dropping the TokioNetmap leaves of the endpoint
TokioNetmap_dropped(n, h) == Arc_drop([n EXCEPT !.adapter = FALSE], h)

\* a ring handle goes out of scope.  A handle of the synchronous endpoint
\* is a borrow; an async handle gives up its clone of the Arc.
Handle_drop(k) ==
    /\ handles[k] > 0
    /\ handles' = [handles EXCEPT ![k] = @ - 1]
    /\ netmap' = IF netmap.tokio THEN Arc_drop(netmap, handles') ELSE netmap
    /\ Record(Call("handle_drop", "Ok", k[2], <<>>, <<>>))
    /\ UNCHANGED <<builder, nmreq, opens>>
    /\ UNCHANGED <<ringVars, ioerr, async_fd, sideVars>>

\* the TokioNetmap goes out of scope, with async ring handles alive or not
TokioNetmap_drop ==
    /\ netmap.state = "open" /\ netmap.tokio /\ netmap.adapter
    /\ netmap' = TokioNetmap_dropped(netmap, handles)
    /\ Record(Call("tokio_drop", "Ok", 0, <<>>, <<>>))
    /\ UNCHANGED <<builder, nmreq, handles, opens>>
    /\ UNCHANGED <<ringVars, ioerr, async_fd, sideVars>>

\* Drop for Netmap (nm_close) of an endpoint the caller owns, once no
\* handle borrows it
Netmap_drop ==
    /\ netmap.state = "open" /\ ~netmap.tokio
    /\ LiveHandles = 0
    /\ netmap' = nm_close(netmap)
    /\ Record(Call("close", "Ok", 0, <<>>, <<>>))
    /\ UNCHANGED <<builder, nmreq, handles, opens>>
    /\ UNCHANGED <<ringVars, ioerr, async_fd, sideVars>>

\* the identifiers the endpoints of the accessor runs are opened with
EndpointNames == {Eth0, Eth0 \o <<"^">>, Prefix \o PipeA}

\* a caller opening an endpoint and taking ring handles from it
EndpointNext ==
    \/ \E ifname_str \in EndpointNames : Builder_new(ifname_str)
    \/ NetmapBuilder_build
    \/ \E index \in 0..MaxRings : Netmap_tx_ring(index)
    \/ \E index \in 0..MaxRings : Netmap_rx_ring(index)
    \/ TokioNetmap_new
    \/ \E ring_idx \in 0..MaxRings : TokioNetmap_tx_ring(ring_idx)
    \/ \E ring_idx \in 0..MaxRings : TokioNetmap_rx_ring(ring_idx)
    \/ \E k \in HandleKeys : Handle_drop(k)
    \/ TokioNetmap_drop
    \/ Netmap_drop

SpecEndpoint == Init /\ [][EndpointNext]_vars

----------------------------------------------------------------------------
(***************************************************************************)
(* Error, its conversions, and the AsyncRead / AsyncWrite ring wrappers     *)
(***************************************************************************)
\* the kinds of io::Error the runs meet
IoKinds == {"NotFound", "WouldBlock", "Other"}

\* the values of Error: Io wraps an io::Error, the others carry no I/O error
Errors ==
    [variant : {"Io"}, kind : IoKinds]
    \cup [variant : {"WouldBlock", "BindFail", "InvalidRingIndex", "PacketTooLarge",
                     "InsufficientSpace", "UnsupportedPlatform", "FallbackUnsupported"},
          kind : {"none"}]

\* impl From<Error> for io::Error
io_Error_from(err) ==
    IF err.variant = "Io"
    THEN [kind |-> err.kind, from |-> "Io", wrapped |-> err.kind]
    ELSE [kind |-> "Other", from |-> err.variant, wrapped |-> "none"]

\* io::Error::new(kind, error): an io::Error of the kind given
io_Error_new(kind, err) == [kind |-> kind, from |-> err.variant, wrapped |-> "none"]

\* io::Error::last_os_error(), or the error AsyncFd reports
OsError(kind) == [kind |-> kind, from |-> "os", wrapped |-> "none"]

\* a caller turns a library error into an io::Error (`?` or .into())
Error_into_io(err) ==
    /\ proc = "running"
    /\ ioerr' = io_Error_from(err)
    /\ Record(Call("into_io", "Err", 0, <<>>, <<>>))
    /\ UNCHANGED <<ringVars, endpointVars, sideVars, async_fd>>

\* Error::Io(#[from] io::Error): an io::Error becomes the variant Io around it
Error_from(e) == [variant |-> "Io", kind |-> e.kind]

\* test_error_conversions: an io::Error of the kind given is turned into an
\* Error and back into an io::Error
test_error_conversions(kind) ==
    /\ proc = "running"
    /\ LET io_error == [kind |-> kind, from |-> "caller", wrapped |-> "none"]
           netmap_error == Error_from(io_error)
       IN ioerr' = io_Error_from(netmap_error)
    /\ Record(Call("io_round_trip", "Ok", 0, <<>>, <<>>))
    /\ UNCHANGED <<ringVars, endpointVars, sideVars, async_fd>>

\* what the system does to one poll: nothing wrong, the sync ioctl returns
\* -1, or the readiness poll of the AsyncFd returns an error
OsOutcomes == {"ok", "ioctl", "reactor"}

\* remaining capacities of the ReadBuf handed to poll_read
ReadCaps == {0, 1, BufSize}

\* AsyncFd reports the descriptor readable (readiness may be reported with
\* nothing to read): the flag is set and the registered waker is woken
AsyncFd_readable ==
    /\ proc = "running"
    /\ ~async_fd.read_ready \/ async_fd.read_waker
    /\ async_fd' = [async_fd EXCEPT
                      !.read_ready = TRUE,
                      !.read_waker = FALSE,
                      !.reader = IF async_fd.read_waker THEN "runnable" ELSE @]
    /\ Record(Call("readable", "Ok", 0, <<>>, <<>>))
    /\ UNCHANGED <<ringVars, endpointVars, sideVars, ioerr>>

\* AsyncFd reports the descriptor writable
AsyncFd_writable ==
    /\ proc = "running"
    /\ ~async_fd.write_ready \/ async_fd.write_waker
    /\ async_fd' = [async_fd EXCEPT
                      !.write_ready = TRUE,
                      !.write_waker = FALSE,
                      !.writer = IF async_fd.write_waker THEN "runnable" ELSE @]
    /\ Record(Call("writable", "Ok", 0, <<>>, <<>>))
    /\ UNCHANGED <<ringVars, endpointVars, sideVars, ioerr>>

\* AsyncNetmapTxRing::poll_write.  A full ring asks the AsyncFd: an error
\* of the readiness poll is returned; a set flag is cleared and the loop
\* goes round on the same ring, so every other case ends in the readiness
\* poll that registers the waker and returns pending.  Otherwise: an empty
\* buf is Ok(0), an oversize one an io::Error, anything else is written to
\* the slot at head.
AsyncNetmapTxRing_poll_write(buf, os) ==
    /\ proc = "running"
    /\ Len(sent) < MaxWrites
    /\ UNCHANGED <<rx, resv, hw, wire, build, rcvd, endpointVars, sideVars>>
    /\ IF tx.num_slots = 0
       THEN /\ proc' = "panicked"
            /\ Record(Call("poll_write", "Panic", 0, buf, <<>>))
            /\ UNCHANGED <<tx, sent, ioerr, async_fd>>
       ELSE IF (tx.head + 1) % tx.num_slots = tx.tail
       THEN /\ IF os = "reactor"
               THEN /\ ioerr' = OsError("Other")
                    /\ Record(Call("poll_write", "Err", 0, buf, <<>>))
                    /\ UNCHANGED async_fd
               ELSE /\ async_fd' = [async_fd EXCEPT !.write_ready = FALSE,
                                                    !.write_waker = TRUE,
                                                    !.writer = "parked"]
                    /\ Record(Call("poll_write", "Pending", 0, buf, <<>>))
                    /\ UNCHANGED ioerr
            /\ UNCHANGED <<tx, proc, sent>>
       ELSE IF Len(buf) = 0
       THEN /\ Record(Call("poll_write", "Ok", 0, buf, <<>>))
            /\ UNCHANGED <<tx, proc, sent, ioerr, async_fd>>
       ELSE IF Len(buf) > tx.nr_buf_size
       THEN /\ ioerr' = io_Error_new("InvalidInput",
                                     [variant |-> "PacketTooLarge", kind |-> "none"])
            /\ Record(Call("poll_write", "Err", Len(buf), buf, <<>>))
            /\ UNCHANGED <<tx, proc, sent, async_fd>>
       ELSE LET current_slot_idx == tx.head % tx.num_slots
                new_head == (tx.head + 1) % tx.num_slots
            IN /\ tx' = [tx EXCEPT
                           !.slot[current_slot_idx] =
                               [len |-> Len(buf) % U16Modulus, flags |-> 0,
                                buf |-> CopyInto(buf, @.buf)],
                           !.head = new_head,
                           !.cur = new_head]
               /\ sent' = Append(sent, buf)
               /\ Record(Call("poll_write", "Ok", Len(buf), buf, <<>>))
               /\ UNCHANGED <<proc, ioerr, async_fd>>

\* the body of poll_flush: ioctl(fd, NIOCTXSYNC) once; -1 is returned as
\* last_os_error(), anything else as Ok(()).  The n of the call is the
\* number of ioctls made.
Flush(op, os) ==
    /\ UNCHANGED <<rx, resv, proc, build, sent, rcvd, endpointVars, sideVars, async_fd>>
    /\ IF os = "ioctl"
       THEN /\ ioerr' = OsError("Other")
            /\ Record(Call(op, "Err", 1, <<>>, <<>>))
            /\ UNCHANGED <<tx, hw, wire>>
       ELSE /\ nm_txsync
            /\ Record(Call(op, "Ok", 1, <<>>, <<>>))
            /\ UNCHANGED ioerr

\* AsyncNetmapTxRing::poll_flush
AsyncNetmapTxRing_poll_flush(os) ==
    /\ proc = "running"
    /\ Flush("poll_flush", os)

\* a poll_shutdown that returns Ok(()) without flushing
AsyncNetmapTxRing_poll_shutdown_without_flush(os) ==
    /\ proc = "running"
    /\ Record(Call("poll_shutdown", "Ok", 1, <<>>, <<>>))
    /\ UNCHANGED <<ringVars, endpointVars, sideVars, ioerr, async_fd>>

\* AsyncNetmapTxRing::poll_shutdown: poll_flush, every result passed on
AsyncNetmapTxRing_poll_shutdown(os) ==
    /\ proc = "running"
    /\ Flush("poll_shutdown", os)

\* AsyncNetmapRxRing::poll_read with cap bytes left in buf.  The ring is
\* synced first.  head == tail asks the AsyncFd: an unset flag registers
\* the waker and returns pending; a set flag is cleared, head is read again
\* and, tail being the value read before, pending is returned with no
\* waker registered.  Otherwise the slot at tail % num_slots is looked at:
\* of length zero, or with no room in buf, it is passed over; else
\* min(len, cap) bytes are copied.  cur and tail are set to tail + 1 modulo
\* num_slots, head is left.  The n of the call is cap, its buf the bytes
\* put into the ReadBuf.
AsyncNetmapRxRing_poll_read(cap, os) ==
    /\ proc = "running"
    /\ Len(rcvd) < MaxRcvd
    /\ UNCHANGED <<tx, resv, build, sent, endpointVars, fallback>>
    /\ IF os = "ioctl"
       THEN /\ ioerr' = OsError("Other")
            /\ Record(Call("poll_read", "Err", cap, <<>>, <<>>))
            /\ UNCHANGED <<rx, hw, wire, proc, rcvd, async_fd, ring1>>
       ELSE LET ring == RxSynced.rx
                head == ring.head
                tail == ring.tail
                num_slots == ring.num_slots
            IN /\ hw' = RxSynced.hw
               /\ wire' = RxSynced.wire
               /\ ring1' = NIOCRXSYNC_ring1
               /\ IF head = tail
                  THEN /\ rx' = ring
                       /\ UNCHANGED <<proc, rcvd>>
                       /\ IF async_fd.read_ready
                          THEN /\ async_fd' = [async_fd EXCEPT !.read_ready = FALSE,
                                                               !.reader = "parked"]
                               /\ Record(Call("poll_read", "Pending", cap, <<>>, <<>>))
                               /\ UNCHANGED ioerr
                          ELSE IF os = "reactor"
                          THEN /\ ioerr' = OsError("Other")
                               /\ Record(Call("poll_read", "Err", cap, <<>>, <<>>))
                               /\ UNCHANGED async_fd
                          ELSE /\ async_fd' = [async_fd EXCEPT !.read_waker = TRUE,
                                                               !.reader = "parked"]
                               /\ Record(Call("poll_read", "Pending", cap, <<>>, <<>>))
                               /\ UNCHANGED ioerr
                  ELSE IF num_slots = 0
                  THEN /\ proc' = "panicked"
                       /\ rx' = ring
                       /\ Record(Call("poll_read", "Panic", cap, <<>>, <<>>))
                       /\ UNCHANGED <<rcvd, ioerr, async_fd>>
                  ELSE LET slot == ring.slot[tail % num_slots]
                           packet_len == slot.len
                           new_tail == (tail + 1) % num_slots
                           len_to_copy == Min(packet_len, cap)
                           packet_data == IF packet_len = 0 \/ cap = 0
                                          THEN <<>>
                                          ELSE SubSeq(slot.buf, 1, len_to_copy)
                       IN /\ rx' = [ring EXCEPT !.cur = new_tail, !.tail = new_tail]
                          /\ rcvd' = Append(rcvd, packet_data)
                          /\ Record(Call("poll_read", "Ok", cap, packet_data, <<>>))
                          /\ UNCHANGED <<proc, ioerr, async_fd>>

\* an async writer, the descriptor becoming writable, a caller converting
\* errors, and a receiver on the far ring
AsyncNext ==
    \/ \E buf \in Payloads, os \in {"ok", "reactor"} : AsyncNetmapTxRing_poll_write(buf, os)
    \/ \E os \in {"ok", "ioctl"} : AsyncNetmapTxRing_poll_flush(os)
    \/ \E os \in {"ok", "ioctl"} : AsyncNetmapTxRing_poll_shutdown(os)
    \/ AsyncFd_writable
    \/ \E err \in Errors : Error_into_io(err)
    \/ \E kind \in IoKinds : test_error_conversions(kind)
    \/ RxRing_sync

SpecAsync == Init /\ [][AsyncNext]_vars

\* an async writer and an async reader on the two ends of one connection
AsyncRxNext ==
    \/ \E buf \in Payloads : AsyncNetmapTxRing_poll_write(buf, "ok")
    \/ AsyncNetmapTxRing_poll_flush("ok")
    \/ \E cap \in ReadCaps, os \in OsOutcomes : AsyncNetmapRxRing_poll_read(cap, os)
    \/ AsyncFd_readable

SpecAsyncRx == Init /\ [][AsyncRxNext]_vars

----------------------------------------------------------------------------
(***************************************************************************)
(* test_tokio_pipe_async_send_recv: one packet through the async wrappers  *)
(***************************************************************************)
\* payload_to_send: ASYNC_TEST_PAYLOAD padded to the packet size, here a
\* buffer of one whole packet
payload_to_send == Fill(2, BufSize)

\* receive_buffer is twice the packet size
receive_buffer_len == 2 * BufSize

\* send_future, first await: write_all polls poll_write until the buffer is
\* written
send_future_write_all ==
    /\ async_fd.writer = "runnable"
    /\ sent = <<>>
    /\ AsyncNetmapTxRing_poll_write(payload_to_send, "ok")

\* send_future, second await: flush polls poll_flush
send_future_flush ==
    /\ async_fd.writer = "runnable"
    /\ sent # <<>>
    /\ hw.txcur # tx.head
    /\ AsyncNetmapTxRing_poll_flush("ok")

\* recv_future: read polls poll_read, again after every wake, until it is
\* ready
recv_future_read ==
    /\ async_fd.reader = "runnable"
    /\ rcvd = <<>>
    /\ AsyncNetmapRxRing_poll_read(receive_buffer_len, "ok")

\* the two futures of tokio::join! and the readiness the reactor reports
PipeNext ==
    \/ send_future_write_all
    \/ send_future_flush
    \/ recv_future_read
    \/ AsyncFd_readable
    \/ AsyncFd_writable

\* SpecPipe: every future that can be polled is polled, and readiness of
\* the descriptor is reported
SpecPipe ==
    /\ Init
    /\ [][PipeNext]_vars
    /\ WF_vars(send_future_write_all)
    /\ WF_vars(send_future_flush)
    /\ WF_vars(recv_future_read)
    /\ WF_vars(AsyncFd_readable)

----------------------------------------------------------------------------
(***************************************************************************)
(* Two tasks, each with the async handle of one RX ring of one endpoint    *)
(***************************************************************************)
\* a packet for ring 1 reaches the kernel
Ring1Packet == Fill(3, 1)
nm_arrive_ring1 ==
    /\ proc = "running"
    /\ Len(ring1.wire) < MaxWire
    /\ Len(ring1.rcvd) + Len(ring1.wire) < MaxRcvd
    /\ ring1' = [ring1 EXCEPT !.wire = Append(@, Ring1Packet)]
    /\ Record(Call("arrive", "Ok", 1, Ring1Packet, <<>>))
    /\ UNCHANGED <<ringVars, endpointVars, ioerr, async_fd, fallback>>

\* AsyncNetmapRxRing::poll_read on the handle of ring 1, which shares the
\* AsyncFd with the handle of ring 0: the same code, with ring_ptr the
\* other ring, and the same ioctl on the whole descriptor.  The AsyncFd
\* keeps the waker of the task that polled last.
AsyncNetmapRxRing_poll_read_ring1(cap, os) ==
    /\ proc = "running"
    /\ Len(ring1.rcvd) < MaxRcvd
    /\ UNCHANGED <<tx, resv, build, sent, rcvd, endpointVars, fallback>>
    /\ IF os = "ioctl"
       THEN /\ ioerr' = OsError("Other")
            /\ Record(Call("poll_read_ring1", "Err", cap, <<>>, <<>>))
            /\ UNCHANGED <<rx, hw, wire, proc, async_fd, ring1>>
       ELSE LET synced == NIOCRXSYNC_ring1
                ring == synced.rx
                head == ring.head
                tail == ring.tail
                num_slots == ring.num_slots
            IN /\ nm_rxsync
               /\ IF head = tail
                  THEN /\ ring1' = synced
                       /\ UNCHANGED proc
                       /\ IF async_fd.read_ready
                          THEN /\ async_fd' = [async_fd EXCEPT !.read_ready = FALSE]
                               /\ Record(Call("poll_read_ring1", "Pending", cap, <<>>, <<>>))
                               /\ UNCHANGED ioerr
                          ELSE IF os = "reactor"
                          THEN /\ ioerr' = OsError("Other")
                               /\ Record(Call("poll_read_ring1", "Err", cap, <<>>, <<>>))
                               /\ UNCHANGED async_fd
                          ELSE /\ async_fd' = [async_fd EXCEPT !.read_waker = TRUE]
                               /\ Record(Call("poll_read_ring1", "Pending", cap, <<>>, <<>>))
                               /\ UNCHANGED ioerr
                  ELSE IF num_slots = 0
                  THEN /\ proc' = "panicked"
                       /\ ring1' = synced
                       /\ Record(Call("poll_read_ring1", "Panic", cap, <<>>, <<>>))
                       /\ UNCHANGED <<ioerr, async_fd>>
                  ELSE LET slot == ring.slot[tail % num_slots]
                           packet_len == slot.len
                           new_tail == (tail + 1) % num_slots
                           len_to_copy == Min(packet_len, cap)
                           packet_data == IF packet_len = 0 \/ cap = 0
                                          THEN <<>>
                                          ELSE SubSeq(slot.buf, 1, len_to_copy)
                       IN /\ ring1' = [synced EXCEPT
                                         !.rx = [ring EXCEPT !.cur = new_tail,
                                                             !.tail = new_tail],
                                         !.rcvd = Append(@, packet_data)]
                          /\ Record(Call("poll_read_ring1", "Ok", cap, packet_data, <<>>))
                          /\ UNCHANGED <<proc, ioerr, async_fd>>

\* a writer feeding ring 0 over the connection, packets arriving for ring
\* 1, and one reading task on each of the two RX rings
TwoRingsNext ==
    \/ AsyncNetmapTxRing_poll_write(Fill(1, 1), "ok")
    \/ AsyncNetmapTxRing_poll_flush("ok")
    \/ nm_arrive_ring1
    \/ AsyncNetmapRxRing_poll_read(BufSize, "ok")
    \/ AsyncNetmapRxRing_poll_read_ring1(BufSize, "ok")
    \/ AsyncFd_readable

SpecTwoRings == Init /\ [][TwoRingsNext]_vars

----------------------------------------------------------------------------
(***************************************************************************)
(* The fallback rings: each a mutex around a deque of its own              *)
(***************************************************************************)
\* the largest max_size a fallback ring is made with
FallbackMaxSize == 2

\* a FallbackTxRing::send that lets one packet more into the queue
FallbackTxRing_send_one_more(buf) ==
    /\ proc = "running"
    /\ fallback.tx = "live"
    /\ IF Len(fallback.tx_queue) > fallback.tx_max_size
       THEN /\ Record(Call("fallback_send", "WouldBlock", Len(buf), buf, <<>>))
            /\ UNCHANGED fallback
       ELSE /\ fallback' = [fallback EXCEPT !.tx_queue = Append(@, buf),
                                            !.sent = Append(@, buf)]
            /\ Record(Call("fallback_send", "Ok", Len(buf), buf, <<>>))
    /\ UNCHANGED <<ringVars, endpointVars, ioerr, async_fd, ring1>>

\* FallbackTxRing::new(max_size): a ring around a new, empty queue
FallbackTxRing_new(max_size) ==
    /\ proc = "running"
    /\ fallback.tx = "none"
    /\ fallback' = [fallback EXCEPT !.tx = "live", !.tx_queue = <<>>,
                                    !.tx_max_size = max_size]
    /\ Record(Call("fallback_tx_new", "Ok", max_size, <<>>, <<>>))
    /\ UNCHANGED <<ringVars, endpointVars, ioerr, async_fd, ring1>>

\* FallbackRxRing::new(max_size): a ring around a new, empty queue
FallbackRxRing_new(max_size) ==
    /\ proc = "running"
    /\ fallback.rx = "none"
    /\ fallback' = [fallback EXCEPT !.rx = "live", !.rx_queue = <<>>,
                                    !.rx_max_size = max_size]
    /\ Record(Call("fallback_rx_new", "Ok", max_size, <<>>, <<>>))
    /\ UNCHANGED <<ringVars, endpointVars, ioerr, async_fd, ring1>>

\* FallbackTxRing::send: under the lock, WouldBlock when the queue of this
\* ring has max_size packets or more, else the packet is pushed at the back
FallbackTxRing_send(buf) ==
    /\ proc = "running"
    /\ fallback.tx = "live"
    /\ IF Len(fallback.tx_queue) >= fallback.tx_max_size
       THEN /\ Record(Call("fallback_send", "WouldBlock", Len(buf), buf, <<>>))
            /\ UNCHANGED fallback
       ELSE /\ fallback' = [fallback EXCEPT !.tx_queue = Append(@, buf),
                                            !.sent = Append(@, buf)]
            /\ Record(Call("fallback_send", "Ok", Len(buf), buf, <<>>))
    /\ UNCHANGED <<ringVars, endpointVars, ioerr, async_fd, ring1>>

\* FallbackRxRing::recv: under the lock, the packet at the front of the
\* queue of this ring, or None
FallbackRxRing_recv ==
    /\ proc = "running"
    /\ fallback.rx = "live"
    /\ IF fallback.rx_queue = <<>>
       THEN /\ Record(Call("fallback_recv", "None", 0, <<>>, <<>>))
            /\ UNCHANGED fallback
       ELSE /\ fallback' = [fallback EXCEPT !.rx_queue = Tail(@),
                                            !.received = Append(@, Head(fallback.rx_queue))]
            /\ Record(Call("fallback_recv", "Some", Len(Head(fallback.rx_queue)),
                           Head(fallback.rx_queue), <<>>))
    /\ UNCHANGED <<ringVars, endpointVars, ioerr, async_fd, ring1>>

\* the two rings made, a sender thread and a receiver thread
FallbackNext ==
    \/ \E max_size \in 0..FallbackMaxSize : FallbackTxRing_new(max_size)
    \/ \E max_size \in 0..FallbackMaxSize : FallbackRxRing_new(max_size)
    \/ \E buf \in Payloads : FallbackTxRing_send(buf)
    \/ FallbackRxRing_recv

SpecFallback == Init /\ [][FallbackNext]_vars

----------------------------------------------------------------------------
(***************************************************************************)
(* The claims                                                              *)
(***************************************************************************)
\* a reduced to 0 .. n-1
Mod(a, n) == ((a % n) + n) % n

\* the ring is full in the sense of the specification: (cur + 1) mod N = tail
IsFull(r) == Mod(r.cur + 1, NumSlots) = r.tail

SameCursors(r, s) == r.head = s.head /\ r.cur = s.cur /\ r.tail = s.tail

\* C1: send of a payload that fits, on a full TX ring, fails with
\* InsufficientSpace and leaves the cursors and every slot as they were.
C1_FullSendFails ==
    [][(/\ last'.op = "send"
        /\ Len(last'.buf) <= tx.nr_buf_size
        /\ IsFull(tx))
       => (last'.res = "InsufficientSpace" /\ tx' = tx)]_vars

\* C2: a successful send copies the payload into the buffer of the slot at
\* the old cur, sets that slot's len to the payload's length, clears its
\* flags, and sets cur = head = (old cur + 1) mod num_slots.
C2_SendEffect ==
    [][(last'.op = "send" /\ last'.res = "Ok")
       => (/\ tx.cur < NumSlots
           /\ SubSeq(tx'.slot[tx.cur].buf, 1, Len(last'.buf)) = last'.buf
           /\ tx'.slot[tx.cur].len = Len(last'.buf)
           /\ tx'.slot[tx.cur].flags = 0
           /\ tx'.cur = Mod(tx.cur + 1, NumSlots)
           /\ tx'.head = tx'.cur)]_vars

\* C3: send of a payload longer than nr_buf_size returns PacketTooLarge with
\* the payload's length and changes no cursor and no slot; a send of exactly
\* nr_buf_size bytes that follows it on a ring that is not full succeeds.
C3_OversizeThenExact ==
    [][/\ (last'.op = "send" /\ Len(last'.buf) > tx.nr_buf_size)
          => (/\ last'.res = "PacketTooLarge"
              /\ last'.n = Len(last'.buf)
              /\ tx' = tx)
       /\ (/\ last.op = "send" /\ last.res = "PacketTooLarge"
           /\ last'.op = "send" /\ Len(last'.buf) = tx.nr_buf_size
           /\ ~IsFull(tx))
          => last'.res = "Ok"]_vars

\* C4: recv returns none exactly when cur = tail, changing no cursor then;
\* otherwise it returns the first slot.len bytes of the slot at cur and
\* advances cur to (cur + 1) mod num_slots.
C4_RecvContract ==
    [][last'.op = "recv"
       => IF rx.cur = rx.tail
          THEN last'.res = "None" /\ SameCursors(rx', rx)
          ELSE /\ last'.res = "Some"
               /\ rx.cur < NumSlots
               /\ last'.buf = SlotBytes(rx.slot[rx.cur])
               /\ rx'.cur = Mod(rx.cur + 1, NumSlots)]_vars

\* head <= cur <= tail going round the ring
CircularOrder(r) ==
    Mod(r.cur - r.head, NumSlots) <= Mod(r.tail - r.head, NumSlots)

\* C5: in every reachable state of both rings, head <= cur <= tail in
\* circular order modulo num_slots.
C5_CursorOrder == CircularOrder(tx) /\ CircularOrder(rx)

\* the kernel has moved the one packet sent so far into the RX ring
OneDelivered ==
    /\ Len(sent) = 1
    /\ hw.txcur = 1
    /\ hw.rxtail = 1
    /\ wire = <<>>

\* C6: round trip: once send(p), sync on TX and sync on RX have carried one
\* packet over, the receiver's first recv yields a frame equal to p.
C6_RoundTrip ==
    [][(/\ OneDelivered
        /\ Len(sent[1]) <= BufSize
        /\ rcvd = <<>>
        /\ last.op = "rx_sync"
        /\ last'.op = "recv")
       => (last'.res = "Some" /\ last'.buf = sent[1])]_vars

IsPrefix(s, t) == Len(s) <= Len(t) /\ SubSeq(t, 1, Len(s)) = s

\* every packet of every committed batch was written, with a length that fits
BatchesWritten ==
    \A i \in 1..Len(sent) : sent[i] # Unwritten /\ Len(sent[i]) <= BufSize

\* C7: FIFO: the frames the receiver has taken are, in order, the first
\* packets of the committed batches: none lost, duplicated or reordered.
C7_BatchFifo == BatchesWritten => IsPrefix(rcvd, sent)

\* free slots of the TX ring in the sense of the specification
FreeSlots(r) == Mod(r.tail - r.cur - 1, NumSlots)

\* C8: reserve_batch(n) fails with InsufficientSpace exactly when
\* (tail - cur - 1 + N) mod N < n, otherwise it returns a reservation over
\* the n slots from cur on; head, cur and tail are unchanged either way.
C8_ReserveContract ==
    [][last'.op = "reserve_batch"
       => (/\ (last'.res = "InsufficientSpace") <=> (FreeSlots(tx) < last'.n)
           /\ (last'.res # "InsufficientSpace")
              => (/\ last'.res = "Ok"
                  /\ resv'.live
                  /\ resv'.start = tx.cur
                  /\ resv'.count = last'.n)
           /\ SameCursors(tx', tx))]_vars

\* C9: commit of a reservation (start, n) sets cur = head = (start + n) mod
\* num_slots; dropping a reservation, like making it, moves no cursor.
C9_CommitDrop ==
    [][/\ last'.op = "commit"
          => (/\ tx'.cur = Mod(resv.start + resv.count, NumSlots)
              /\ tx'.head = tx'.cur)
       /\ last'.op \in {"drop", "reserve_batch"} => SameCursors(tx', tx)]_vars

\* C10: packet(i, len) returns an error and changes no slot when i >= n
\* (InvalidRingIndex) or len > nr_buf_size; otherwise it sets len of the slot
\* (start + i) mod num_slots and touches no other slot.
C10_PacketContract ==
    [][last'.op = "packet"
       => LET i == last'.n
              len == Len(last'.buf)
              s == Mod(resv.start + i, NumSlots)
          IN IF i >= resv.count
             THEN last'.res = "InvalidRingIndex" /\ tx'.slot = tx.slot
             ELSE IF len > tx.nr_buf_size
             THEN last'.res = "PacketTooLarge" /\ tx'.slot = tx.slot
             ELSE /\ last'.res = "Ok"
                  /\ tx'.slot[s].len = len
                  /\ SubSeq(tx'.slot[s].buf, 1, len) = last'.buf
                  /\ \A t \in 0..(NumSlots - 1) :
                        t # s => tx'.slot[t] = tx.slot[t]]_vars

\* the ring accessors, and the direction each serves
AccessorOps == {"tx_ring", "rx_ring", "async_tx_ring", "async_rx_ring"}
AccessorDir(op) == IF op \in {"tx_ring", "async_tx_ring"} THEN "tx" ELSE "rx"

\* the ring count of the endpoint's attachment kind, from the descriptor
EffectiveCount(dir) ==
    IF netmap.is_host_if
    THEN (IF dir = "tx" THEN netmap.nifp.ni_host_tx_rings
                        ELSE netmap.nifp.ni_host_rx_rings)
    ELSE (IF dir = "tx" THEN netmap.nifp.ni_tx_rings ELSE netmap.nifp.ni_rx_rings)

\* C11: tx_ring(i) / rx_ring(i) of Netmap and of TokioNetmap return
\* InvalidRingIndex(i) exactly when i >= the endpoint's effective ring count
\* for that direction, and a handle on ring i otherwise.
C11_RingIndexCheck ==
    [][last'.op \in AccessorOps
       => LET dir == AccessorDir(last'.op)
              i == last'.n
          IN IF i >= EffectiveCount(dir)
             THEN last'.res = "InvalidRingIndex" /\ handles' = handles
             ELSE /\ last'.res = "Ok"
                  /\ handles' = [handles EXCEPT ![<<dir, i>>] = @ + 1]]_vars

\* rx_ring(1) on an endpoint with one RX ring has failed
C11_Witness ==
    /\ last.op = "rx_ring"
    /\ last.res = "InvalidRingIndex"
    /\ last.n = 1
    /\ netmap.num_rx_rings = 1

\* C12: an endpoint never has two live handles on the same ring: at most one
\* per direction and ring index, whatever accessor gave it out.
C12_SingleHandle == \A k \in HandleKeys : handles[k] <= 1

\* packets the RX ring holds unread: (tail - cur) mod N
Unread(r) == Mod(r.tail - r.cur, NumSlots)

\* C13: the number of unread packets of the RX ring never increases across
\* recv or recv_batch and never decreases across sync.
C13_UnreadMonotone ==
    [][/\ last'.op \in {"recv", "recv_batch"} => Unread(rx') <= Unread(rx)
       /\ last'.op = "rx_sync" => Unread(rx') >= Unread(rx)]_vars

\* the identifier with the framework prefix removed if it has it, added if not
Twin(id) == IF starts_with(id, Prefix) THEN strip_prefix(id, Prefix) ELSE Prefix \o id

\* builder b0 after the setter calls that were made on b
Configured(b0, b) ==
    [b0 EXCEPT !.stage = b.stage,
               !.req_num_tx_rings = IF b.asked_tx = Unset THEN @ ELSE b.asked_tx % U16Modulus,
               !.req_num_rx_rings = IF b.asked_rx = Unset THEN @ ELSE b.asked_rx % U16Modulus,
               !.additional_flags = b.additional_flags]

\* "eth0", "eth0^" and the same with the prefix
IdempotentNames ==
    {Eth0, Prefix \o Eth0, Eth0 \o <<"^">>, Prefix \o Eth0 \o <<"^">>}

\* C14: builder idempotence: with the same ring counts and flags, the request
\* built from "netmap:" + x equals the request built from x, for x = "eth0"
\* and x = "eth0^".
C14_BuilderIdempotent ==
    (builder.stage = "built" /\ builder.ifname \in IdempotentNames)
    => nmreq = build_nmreq(Configured(NetmapBuilder_new(Twin(builder.ifname)), builder))

\* a request was built from "netmap:eth0^" with counts and flags set
C14_Witness ==
    /\ builder.stage = "built"
    /\ builder.ifname = Prefix \o Eth0 \o <<"^">>
    /\ builder.asked_tx = 2
    /\ builder.additional_flags = NETMAP_NO_TX_POLL
    /\ nmreq.res = "Ok"
    /\ nmreq.nr_host_tx_rings = 2

\* build() has failed before reaching the framework's open primitive
FailsBeforeOpen == last'.res = "BindFail" /\ opens' = opens

C16_TestPipesOpen ==
    [][(/\ last'.op = "build"
        /\ builder.ifname \in {Prefix \o IntegrationPipe, Prefix \o TokioPipe})
       => /\ opens' = opens + 1
          /\ last'.res = "Ok"
             => /\ ~netmap'.is_host_if
                /\ (builder.asked_tx = Unset /\ builder.asked_rx = Unset)
                   => (netmap'.num_tx_rings = 1 /\ netmap'.num_rx_rings = 1)]_vars

\* C17: for a pipe, a request of 0 TX (RX) rings, by no setter call or by
\* num_tx_rings(0) (num_rx_rings(0)), puts 1 in nr_tx_rings (nr_rx_rings).
C17_PipeDefaultsToOne ==
    (builder.stage = "built" /\ builder.is_pipe_if /\ nmreq.res = "Ok")
    => /\ builder.asked_tx \in {Unset, 0} => nmreq.nr_tx_rings = 1
       /\ builder.asked_rx \in {Unset, 0} => nmreq.nr_rx_rings = 1

C19_EffectiveCounts ==
    netmap.state = "open"
    => LET host == ends_with(builder.ifname, "^")
       IN /\ netmap.is_host_if = host
          /\ netmap.num_tx_rings = IF host THEN netmap.nifp.ni_host_tx_rings
                                           ELSE netmap.nifp.ni_tx_rings
          /\ netmap.num_rx_rings = IF host THEN netmap.nifp.ni_host_rx_rings
                                           ELSE netmap.nifp.ni_rx_rings

\* a host attachment was opened on a descriptor whose host and hardware
\* counts differ
C19_Witness ==
    /\ netmap.state = "open"
    /\ netmap.is_host_if
    /\ netmap.nifp.ni_host_tx_rings # netmap.nifp.ni_tx_rings
    /\ netmap.num_tx_rings = netmap.nifp.ni_host_tx_rings

\* the variants of Error that wrap no I/O error
LibraryVariants ==
    {"WouldBlock", "BindFail", "InvalidRingIndex", "PacketTooLarge",
     "InsufficientSpace", "UnsupportedPlatform", "FallbackUnsupported"}

\* C20: every io::Error made of a library Error has kind Other, unless the
\* Error was Io, whose wrapped io::Error is returned as it was; the error
\* poll_write returns for an oversize buffer included.
C20_ConversionKind ==
    /\ ioerr.from \in LibraryVariants => ioerr.kind = "Other"
    /\ ioerr.from = "Io" => ioerr.kind = ioerr.wrapped

\* C21: an io::Error of kind NotFound that is turned into an Error and then
\* back into an io::Error comes out with kind Other
C21_RoundTripKind ==
    (last.op = "io_round_trip" /\ ioerr.wrapped = "NotFound") => ioerr.kind = "Other"

\* C22: a sync whose ioctl failed returns an I/O error to its caller, and
\* leaves the cursors of both rings as they were
C22_SyncFailureSurfaced ==
    [][(last'.op \in {"tx_sync", "rx_sync"} /\ last'.n = IoctlFailed)
          => (last'.res = "Err" /\ tx' = tx /\ rx' = rx)]_vars

\* C23: poll_write looks at its argument before it looks at the ring: in
\* every ring state an empty buf returns ready with 0 and a buf longer than
\* nr_buf_size returns ready with a PacketTooLarge error, no cursor or slot
\* being changed; such a call never returns pending.
C23_ArgumentFirst ==
    [][(/\ last'.op = "poll_write"
        /\ Len(last'.buf) = 0 \/ Len(last'.buf) > tx.nr_buf_size)
          => /\ tx' = tx
             /\ IF Len(last'.buf) = 0
                THEN last'.res = "Ok" /\ last'.n = 0
                ELSE last'.res = "Err" /\ ioerr'.from = "PacketTooLarge"]_vars

\* what one poll_write of buf does to a ring that is not full
OnePacketWritten(buf) ==
    LET new_head == Mod(tx.head + 1, tx.num_slots)
    IN /\ last'.res = "Ok"
       /\ last'.n = Len(buf)
       /\ SubSeq(tx'.slot[tx.head].buf, 1, Len(buf)) = buf
       /\ tx'.slot[tx.head].len = Len(buf)
       /\ tx'.slot[tx.head].flags = 0
       /\ \A s \in 0..(NumSlots - 1) : s # tx.head => tx'.slot[s] = tx.slot[s]
       /\ tx'.head = new_head
       /\ tx'.cur = new_head
       /\ tx'.tail = tx.tail
       /\ sent' = Append(sent, buf)

\* C24 as stated: a poll_write of a buf that fits writes one packet on a
\* ring that is not full, and on a full ring returns pending with the waker
\* registered for writability, cursors and slots unchanged.
C24_FullRingPends ==
    [][(/\ last'.op = "poll_write"
        /\ Len(last'.buf) > 0
        /\ Len(last'.buf) <= tx.nr_buf_size)
          => IF IsFull(tx)
             THEN last'.res = "Pending" /\ async_fd'.write_waker /\ tx' = tx
             ELSE OnePacketWritten(last'.buf)]_vars

\* C24, amended: the same, except that on a full ring an error of the
\* readiness poll is returned instead of pending; the ring is unchanged
\* either way.
C24_OnePacketPerWrite ==
    [][(/\ last'.op = "poll_write"
        /\ Len(last'.buf) > 0
        /\ Len(last'.buf) <= tx.nr_buf_size)
          => IF IsFull(tx)
             THEN /\ tx' = tx
                  /\ \/ last'.res = "Pending" /\ async_fd'.write_waker
                     \/ last'.res = "Err" /\ ioerr'.from = "os"
             ELSE OnePacketWritten(last'.buf)]_vars

\* two packets were written and the next poll_write found the ring full
C24_Witness ==
    /\ last.op = "poll_write"
    /\ last.res = "Pending"
    /\ Len(last.buf) > 0
    /\ Len(sent) = 2
    /\ async_fd.write_waker
    /\ IsFull(tx)

\* C25: whenever poll_read returns pending, the waker of the task is
\* registered for readability when the call returns
C25_PendingRegistersWaker ==
    [][(last'.op = "poll_read" /\ last'.res = "Pending") => async_fd'.read_waker]_vars

\* the bytes a read of cap bytes takes from the oldest unread slot of r
OldestUnread(r, cap) ==
    SubSeq(r.slot[r.cur].buf, 1, Min(Min(r.slot[r.cur].len, BufSize), cap))

\* C26: when the RX ring (as the kernel's sync leaves it) holds a packet,
\* poll_read returns ready with min(slot.len, buf.remaining) bytes of the
\* oldest unread slot, the one at cur, and advances the ring by that one
\* slot modulo num_slots.
C26_ReadsOldestSlot ==
    [][(/\ last'.op = "poll_read"
        /\ last'.res # "Err"
        /\ Unread(RxSynced.rx) > 0
        /\ RxSynced.rx.slot[RxSynced.rx.cur].len > 0)
          => /\ last'.res = "Ok"
             /\ last'.buf = OldestUnread(RxSynced.rx, last'.n)
             /\ rx'.cur = Mod(RxSynced.rx.cur + 1, NumSlots)
             /\ Unread(rx') = Unread(RxSynced.rx) - 1]_vars

\* C27: poll_read never hands the caller a ready result with zero bytes
\* filled when the buffer had room: a zero-length slot is passed over and
\* the call goes on to the next packet or returns pending.
C27_NoEmptyReady ==
    [][(last'.op = "poll_read" /\ last'.res = "Ok" /\ last'.n > 0)
          => Len(last'.buf) > 0]_vars

\* C28: poll_flush makes the TX-sync ioctl once and returns ready: Ok with
\* the kernel's sync done if the ioctl succeeds, the OS error with nothing
\* changed if it fails, never pending; poll_shutdown returns the same and
\* has the same effect.
C28_FlushAndShutdown ==
    [][last'.op \in {"poll_flush", "poll_shutdown"}
          => /\ last'.n = 1
             /\ last'.res \in {"Ok", "Err"}
             /\ last'.res = "Ok" => (nm_txsync /\ ioerr' = ioerr)
             /\ last'.res = "Err" => (ioerr'.from = "os" /\ UNCHANGED <<tx, hw, wire>>)
             /\ UNCHANGED <<rx, sent, rcvd, async_fd>>]_vars

\* a poll_shutdown has handed a written packet to the kernel
C28_Witness ==
    /\ last.op = "poll_shutdown"
    /\ last.res = "Ok"
    /\ Len(wire) > 0
    /\ hw.txcur = tx.head
    /\ tx.head # 0

\* what one poll_read does to the ring r the kernel's sync left when it
\* takes one slot: cur moves on by one, no slot is changed
OneSlotRead(r) ==
    /\ rx'.slot = r.slot
    /\ rx'.head = r.head
    /\ rx'.cur = Mod(r.cur + 1, NumSlots)

\* C29: every poll_read, poll_write or poll_flush either does the whole
\* work of one slot, the cursors moving on by one, or changes no slot and
\* no cursor; a call that returns pending or an error leaves both rings as
\* it found them; head <= cur <= tail holds when the call returns.
C29_CancellationSafe ==
    [][last'.op \in {"poll_read", "poll_write", "poll_flush"}
          => /\ last'.res \in {"Pending", "Err"} => (tx' = tx /\ rx' = rx)
             /\ last'.op = "poll_write" => (tx' = tx \/ OnePacketWritten(last'.buf))
             /\ last'.op = "poll_read" => (rx' = RxSynced.rx \/ OneSlotRead(RxSynced.rx))
             /\ CircularOrder(tx') /\ CircularOrder(rx')]_vars

\* C30: in the run of the two futures the reader eventually gets a ready
\* read whose bytes are the buffer the writer sent
C30_PipeRoundTrip ==
    <>(/\ sent = <<payload_to_send>>
       /\ rcvd # <<>>
       /\ rcvd[1] = payload_to_send)

\* the payloads sent on the fallback TX ring and not yet received
Outstanding ==
    SubSeq(fallback.sent, Len(fallback.received) + 1, Len(fallback.sent))

\* C31: a recv on the fallback RX ring returns the oldest payload sent on
\* the fallback TX ring and not yet received, each once and in send order,
\* and none when there is no such payload
C31_FallbackFifo ==
    [][last'.op = "fallback_recv"
          => IF Outstanding = <<>>
             THEN last'.res = "None"
             ELSE /\ last'.res = "Some"
                  /\ last'.buf = Head(Outstanding)
                  /\ fallback'.received = Append(fallback.received, Head(Outstanding))]_vars

\* C32: send on the fallback TX ring fails with WouldBlock, the queue left
\* as it was, exactly when the queue holds max_size packets, and succeeds
\* otherwise, the packet going to the back; the queue never holds more
\* than max_size packets
C32_FallbackCapacity ==
    [][/\ Len(fallback'.tx_queue) <= fallback'.tx_max_size
       /\ last'.op = "fallback_send"
             => IF Len(fallback.tx_queue) = fallback.tx_max_size
                THEN last'.res = "WouldBlock" /\ fallback'.tx_queue = fallback.tx_queue
                ELSE /\ last'.res = "Ok"
                     /\ fallback'.tx_queue = Append(fallback.tx_queue, last'.buf)]_vars

\* a send has found the queue full after it was filled
C32_Witness ==
    /\ last.op = "fallback_send"
    /\ last.res = "WouldBlock"
    /\ fallback.tx_max_size = FallbackMaxSize
    /\ Len(fallback.tx_queue) = FallbackMaxSize

\* the operations of the ring handles that run in user space
UserOps == {"send", "reserve_batch", "packet", "commit", "recv", "recv_batch"}

\* C33: no send, reserve_batch, packet, commit, recv or recv_batch changes
\* tail, num_slots or nr_buf_size of a ring
C33_UserOpsFrame ==
    [][last'.op \in UserOps
          => /\ tx'.tail = tx.tail /\ rx'.tail = rx.tail
             /\ tx'.num_slots = tx.num_slots /\ rx'.num_slots = rx.num_slots
             /\ tx'.nr_buf_size = tx.nr_buf_size
             /\ rx'.nr_buf_size = rx.nr_buf_size]_vars

\* slot s is one of the slots from a up to, not including, b
InRange(s, a, b) == s < NumSlots /\ Mod(s - a, NumSlots) < Mod(b - a, NumSlots)

\* C34: the slot a send writes is a TX slot of [head, tail) and the slot a
\* recv reads is an RX slot of [cur, tail); each is a slot of the ring
C34_SlotOwnership ==
    [][/\ (last'.op = "send" /\ last'.res = "Ok") => InRange(tx.cur, tx.head, tx.tail)
       /\ (last'.op = "recv" /\ last'.res = "Some") => InRange(last'.n, rx.cur, rx.tail)]_vars

\* C35: recv_batch returns no more frames than the ring has unread, and
\* returns the frames, and leaves the cursors, that as many calls of recv
\* one after the other return and leave
C35_BatchIsRepeatedRecv ==
    [][last'.op = "recv_batch"
          => /\ last'.res = "Ok"
             /\ last'.n <= Unread(rx)
             /\ last'.frames = RecvRepeated(rx, last'.n).frames
             /\ SameCursors(rx', RecvRepeated(rx, last'.n).ring)]_vars

C37_TrueModulus ==
    /\ tx.head < NumSlots /\ tx.cur < NumSlots
    /\ rx.head < NumSlots /\ rx.cur < NumSlots
    /\ proc # "panicked"

\* C38: of an identifier ["netmap:"] base ["^"] the builder keeps base,
\* without the prefix and without the ^, as the name for the request;
\* wants_host_rings says whether the ^ was there; is_pipe says whether base
\* has the shape pipe{...}; and the name for the open gets the prefix put
\* in front only when the identifier had none and has neither a ':' nor
\* pipe{
C38_IdentifierParsing ==
    builder.stage # "none" =>
        LET id == builder.ifname
            prefixed == starts_with(id, Prefix)
            rest == IF prefixed THEN strip_prefix(id, Prefix) ELSE id
            host == ends_with(rest, "^")
            base == IF host THEN pop(rest) ELSE rest
        IN /\ builder.base_ifname = base
           /\ builder.wants_host_rings = host
           /\ builder.is_pipe_if = (starts_with(base, PipeOpen) /\ ends_with(base, "}"))
           /\ builder.ifname_raw =
                 IF ~prefixed /\ ~contains(id, ":") /\ ~starts_with(id, PipeOpen)
                 THEN Prefix \o id
                 ELSE id


\* C39: nm_close runs at most once on an endpoint, and only in a step that
\* drops it: the caller's drop of a Netmap, a failed TokioNetmap::new, or
\* the drop of the last of the TokioNetmap and the async ring handles made
\* from it; so a live ring handle always has an open descriptor under it
C39_EndpointLifetime ==
    [][/\ netmap'.closes <= 1
       /\ netmap'.closes # netmap.closes =>
             /\ netmap.state = "open"
             /\ netmap'.state = "closed"
             /\ ~netmap'.adapter
             /\ LiveHandles' = 0
             /\ last'.op \in {"close", "tokio_new", "tokio_drop", "handle_drop"}
       /\ netmap'.state = "closed" <=> netmap'.closes = 1
       /\ LiveHandles' > 0 => netmap'.state = "open"]_vars

\* C39 happens: the TokioNetmap was dropped while an async ring handle was
\* alive, and the drop of that handle closed the endpoint
C39_Witness ==
    /\ netmap.tokio
    /\ netmap.closes = 1
    /\ last.op = "handle_drop"


\* what a user of a ring owns of it
OwnPart(r) == <<r.head, r.cur, r.slot>>

\* C40: with one task on the handle of RX ring 0 and another on the handle
\* of RX ring 1 of the same endpoint, an operation on one handle leaves
\* head, cur and every slot of the other ring as they were
C40_RingIndependence ==
    [][/\ last'.op \in {"poll_read", "poll_write", "poll_flush"} =>
             OwnPart(ring1'.rx) = OwnPart(ring1.rx)
       /\ last'.op = "poll_read_ring1" => OwnPart(rx') = OwnPart(rx)]_vars

=============================================================================
